---- MODULE Spec2Model ----
(***************************************************************************)
(* Model of the colour pipeline of video-color-kmeans:                     *)
(*   main -> VideoFrameIterator::new -> extract_color_ranking_from_video   *)
(*        -> (next, extract_colors_from_frame, count)* -> sort             *)
(*        -> print_color_palette -> create_color_clusters                  *)
(*        -> print_color_clusters                                          *)
(* A colour is a triple <<red, green, blue>> of 8-bit channels.  An        *)
(* Option is a sequence of length 0 (None) or 1 (Some).                    *)
(***************************************************************************)
EXTENDS Integers, Sequences, FiniteSets, TLC

\* ------------------------------------------------------------------ bounds
MaxPixels == 4       \* pixels of a resized frame
MaxRankPixels == 2   \* pixels of a resized frame handed to the aggregator alone
MaxFrames == 2       \* frames of the video stream
MaxSecs == 3         \* largest --start / --end offset, in seconds
MaxFps2 == 2         \* largest frame rate of the video, in half frames per second
MaxClusters == 2     \* largest --color-clusters
MaxHeight == 2       \* largest --resize-height, and most rows of a decoded frame
MaxCount == 2        \* largest count of a ranking handed to the clusterer
MaxBandPixels == 2   \* pixels of a frame handed to the extractor alone
ThrDen == 2          \* thresholds are the fractions 0/ThrDen .. ThrDen/ThrDen

\* ------------------------------------------------------- program constants
white_threshold == 250
black_threshold == 5
sample_dims == 3
num_colors == 10
ChannelMax == 255

Red == <<255, 0, 0>>
Green == <<0, 255, 0>>
Blue == <<0, 0, 255>>
White == <<255, 255, 255>>
Black == <<0, 0, 0>>

NoneV == <<>>
Some(v) == <<v>>
Option(S) == {NoneV} \cup {Some(v) : v \in S}

Min2(a, b) == IF a <= b THEN a ELSE b
Max3(c) == IF c[1] >= c[2] /\ c[1] >= c[3] THEN c[1] ELSE IF c[2] >= c[3] THEN c[2] ELSE c[3]
Min3(c) == IF c[1] <= c[2] /\ c[1] <= c[3] THEN c[1] ELSE IF c[2] <= c[3] THEN c[2] ELSE c[3]

RECURSIVE SumSeq(_)
SumSeq(s) == IF s = <<>> THEN 0 ELSE Head(s) + SumSeq(Tail(s))

\* ------------------------------------------------- extract_colors_from_frame
\* cvt_color(COLOR_BGR2RGB): every pixel's channel order is reversed.
cvt_color(resized_frame) ==
    [i \in 1..Len(resized_frame) |->
        <<resized_frame[i][3], resized_frame[i][2], resized_frame[i][1]>>]

\* datastart..dataend: the pixel rows as one flat byte slice.
RECURSIVE data_slice(_)
data_slice(rgb) == IF rgb = <<>> THEN <<>> ELSE Head(rgb) \o data_slice(Tail(rgb))

\* slice.chunks(3)
RECURSIVE chunks(_)
chunks(bytes) ==
    IF bytes = <<>> THEN <<>>
    ELSE IF Len(bytes) <= 3 THEN <<bytes>>
    ELSE <<SubSeq(bytes, 1, 3)>> \o chunks(SubSeq(bytes, 4, Len(bytes)))

\* The mutant of InExclusionBand: strict comparisons.
InExclusionBandStrict(color) ==
    \/ color[1] > white_threshold /\ color[2] > white_threshold /\ color[3] > white_threshold
    \/ color[1] < black_threshold /\ color[2] < black_threshold /\ color[3] < black_threshold

\* The near-white / near-black test that skips a pixel.
InExclusionBand(color) ==
    \/ color[1] >= white_threshold /\ color[2] >= white_threshold /\ color[3] >= white_threshold
    \/ color[1] <= black_threshold /\ color[2] <= black_threshold /\ color[3] <= black_threshold

\* Hsv of an Srgb<f32>: value = max, saturation = (max - min) / max, 0 for black.
\* A threshold t stands for the fraction t / ThrDen; the comparisons are
\* cross-multiplied so that they stay in the integers.
SaturationAtLeast(color, t) ==
    IF Max3(color) = 0 THEN 0 >= t
    ELSE (Max3(color) - Min3(color)) * ThrDen >= t * Max3(color)

ValueAtLeast(color, t) == Max3(color) * ThrDen >= t * ChannelMax

RECURSIVE FilterChunks(_, _, _)
FilterChunks(cs, saturation_threshold, luminance_threshold) ==
    IF cs = <<>> THEN <<>>
    ELSE LET color == <<Head(cs)[1], Head(cs)[2], Head(cs)[3]>>
             rest == FilterChunks(Tail(cs), saturation_threshold, luminance_threshold)
         IN  IF InExclusionBand(color) THEN rest
             ELSE IF SaturationAtLeast(color, saturation_threshold)
                     /\ ValueAtLeast(color, luminance_threshold)
                  THEN <<color>> \o rest
                  ELSE rest

extract_colors_from_frame(resized_frame, saturation_threshold, luminance_threshold) ==
    FilterChunks(chunks(data_slice(cvt_color(resized_frame))),
                 saturation_threshold, luminance_threshold)

\* new_width = (resize_height as f64 * aspect_ratio).round() as i32, with
\* aspect_ratio = cols / rows; round() rounds half away from zero.
new_width(resize_height, cols, rows) ==
    IF resize_height >= 0
    THEN (2 * resize_height * cols + rows) \div (2 * rows)
    ELSE 0 - ((2 * (0 - resize_height) * cols + rows) \div (2 * rows))

\* The frames imgproc::resize can hand over: resize_height rows of new_width
\* pixels (BGR); pixels is the set of values a resized pixel of this video can take.
ResizedFrames(resize_height, cols, rows, pixels) ==
    [1..(resize_height * new_width(resize_height, cols, rows)) -> pixels]

\* -------------------------------------------- extract_color_ranking_from_video
\* The mutant of CountColor: a colour not seen before starts at 1 and is
\* then incremented (or_insert(1) for or_insert(0)).
CountColorFromOne(color_counts, color) ==
    IF color \in DOMAIN color_counts
    THEN [color_counts EXCEPT ![color] = @ + 1]
    ELSE color_counts @@ (color :> 2)

\* *color_counts.entry(color).or_insert(0) += 1
CountColor(color_counts, color) ==
    IF color \in DOMAIN color_counts
    THEN [color_counts EXCEPT ![color] = @ + 1]
    ELSE color_counts @@ (color :> 1)

\* for color in colors { ... }
RECURSIVE CountColors(_, _)
CountColors(color_counts, colors) ==
    IF colors = <<>> THEN color_counts
    ELSE CountColors(CountColor(color_counts, Head(colors)), Tail(colors))

\* color_counts.into_iter().collect(): the entries in any order a HashMap may
\* iterate them.
Collected(color_counts) ==
    LET n == Cardinality(DOMAIN color_counts)
    IN  {[i \in 1..n |-> <<key[i], color_counts[key[i]]>>] :
            key \in {f \in [1..n -> DOMAIN color_counts] :
                        \A i, j \in 1..n : i # j => f[i] # f[j]}}

\* The mutant of OrdersBefore: ascending counts (a.1.cmp(&b.1)).
OrdersBeforeAscending(a, b) == a[2] < b[2]

\* sort_by's comparator b.1.cmp(&a.1) is Less exactly when a's count is larger.
OrdersBefore(a, b) == a[2] > b[2]

\* sort_by is a stable sort: x goes in front of the first element it orders
\* strictly before, behind everything else.
RECURSIVE InsertSorted(_, _)
InsertSorted(x, sorted) ==
    IF sorted = <<>> THEN <<x>>
    ELSE IF OrdersBefore(x, Head(sorted)) THEN <<x>> \o sorted
    ELSE <<Head(sorted)>> \o InsertSorted(x, Tail(sorted))

RECURSIVE sort_by(_)
sort_by(v) ==
    IF v = <<>> THEN <<>>
    ELSE InsertSorted(v[Len(v)], sort_by(SubSeq(v, 1, Len(v) - 1)))

\* ------------------------------------------------------- VideoFrameIterator
\* (ts.as_secs_f64() * fps).round() as u64, the frame rate being fps2 / 2.
ToFrame(secs, fps2) == (secs * fps2 + 1) \div 2

StartFrame(start_timestamp, fps2) ==
    IF start_timestamp = NoneV THEN 0 ELSE ToFrame(start_timestamp[1], fps2)

EndFrame(end_timestamp, fps2, total_frames) ==
    IF end_timestamp = NoneV THEN total_frames ELSE ToFrame(end_timestamp[1], fps2)

\* The mutant of Exhausted: the frame at end_frame is still read.
ExhaustedAfterEnd(frame_number_, end_frame_) == frame_number_ > end_frame_

\* next()'s first test: self.frame_number >= self.end_frame
Exhausted(frame_number_, end_frame_) == frame_number_ >= end_frame_

\* ---------------------------------------------------- create_color_clusters
\* data: every colour of the ranking repeated once per unit of its count.
RECURSIVE Samples(_)
Samples(color_ranking_) ==
    IF color_ranking_ = <<>> THEN <<>>
    ELSE [i \in 1..Head(color_ranking_)[2] |-> Head(color_ranking_)[1]]
         \o Samples(Tail(color_ranking_))

\* total_samples
TotalSamples(color_ranking_) ==
    SumSeq([i \in 1..Len(color_ranking_) |-> color_ranking_[i][2]])

SampleColors(data) == {data[i] : i \in 1..Len(data)}

\* The mean of the samples k-means assigned to cluster j, as the channel sums
\* and the number of samples (the f64 channel is sum / (n * 255)).
ClusterMean(data, assignments, j) ==
    [sum |-> [ch \in 1..sample_dims |->
                 SumSeq([i \in 1..Len(data) |->
                            IF assignments[i] = j THEN data[i][ch] ELSE 0])],
     n   |-> Cardinality({i \in 1..Len(data) : assignments[i] = j})]

\* What kmeans_lloyd can return for k >= 1 clusters over a non-empty sample
\* array: one cluster index below k per sample, equal samples sharing their
\* index (a sample goes to the nearest centroid), and k centroids, each the mean
\* of its samples; a cluster without samples keeps some sample point.
KMeansResults(data, k) ==
    {[assignments |-> [i \in 1..Len(data) |-> f[data[i]]],
      centroids   |-> [j \in 1..k |->
                          LET m == ClusterMean(data, [i \in 1..Len(data) |-> f[data[i]]], j - 1)
                          IN  IF m.n > 0 THEN m
                              ELSE [sum |-> e[j], n |-> 1]]] :
        f \in [SampleColors(data) -> 0..(k - 1)],
        e \in [1..k -> SampleColors(data)]}

\* (chunk * 255.0).clamp(0.0, 255.0) as u8, the cast truncating.
ToU8(sum, n) ==
    LET scaled == sum \div n
    IN  IF scaled < 0 THEN 0 ELSE IF scaled > ChannelMax THEN ChannelMax ELSE scaled

CentroidColor(c) == <<ToU8(c.sum[1], c.n), ToU8(c.sum[2], c.n), ToU8(c.sum[3], c.n)>>

\* The mutant of AssignLoop: the pair replaces the cluster's list instead of
\* being pushed onto it.
RECURSIVE AssignLoopOverwrite(_, _, _)
AssignLoopOverwrite(ranking, assignment_iter, assignments) ==
    IF ranking = <<>> THEN assignments
    ELSE IF assignment_iter = <<>>
         THEN AssignLoopOverwrite(Tail(ranking), assignment_iter, assignments)
    ELSE AssignLoopOverwrite(Tail(ranking), Tail(assignment_iter),
                             [assignments EXCEPT ![Head(assignment_iter) + 1] =
                                 <<Head(ranking)>>])

\* for (color, count) in color_ranking {
\*     if let Some(cluster_idx) = assignment_iter.next() { assignments[cluster_idx].push(..) } }
RECURSIVE AssignLoop(_, _, _)
AssignLoop(ranking, assignment_iter, assignments) ==
    IF ranking = <<>> THEN assignments
    ELSE IF assignment_iter = <<>>
         THEN AssignLoop(Tail(ranking), assignment_iter, assignments)
    ELSE AssignLoop(Tail(ranking), Tail(assignment_iter),
                    [assignments EXCEPT ![Head(assignment_iter) + 1] =
                        Append(@, Head(ranking))])

\* centroids.zip(assignments).map(..).collect()
ZipClusters(centroids, assignments) ==
    [j \in 1..Min2(Len(centroids), Len(assignments)) |->
        [centroid |-> CentroidColor(centroids[j]), assignments |-> assignments[j]]]

create_color_clusters(color_ranking_, num_clusters, result) ==
    ZipClusters(result.centroids,
                AssignLoop(color_ranking_, result.assignments,
                           [j \in 1..num_clusters |-> <<>>]))

\* ------------------------------------------------------------------- state
VARIABLES
    args,             \* Args::parse(): color_clusters, resize_height, saturation, luminance, start, end
    video,            \* the file: file, fps2, total_frames, bad (the frame that fails to decode), cols, rows, pixels
    pc,               \* where main stands
    capture,          \* the VideoCapture's position: the index of the frame read next
    end_frame,        \* VideoFrameIterator.end_frame
    frame_number,     \* VideoFrameIterator.frame_number
    start_frame,      \* new()'s start_frame
    yielded,          \* the indices of the frames next() returned, in order
    next_calls,       \* calls of next() so far
    extract_calls,    \* calls of extract_colors_from_frame so far
    decode_failed,    \* a read() failed before the end of the stream
    resized_frame,    \* the frame last resized (BGR pixels)
    colors,           \* what extract_colors_from_frame last returned
    extracted_total,  \* colours returned by extract_colors_from_frame so far
    color_counts,     \* the HashMap<Color, usize>
    color_ranking,    \* the Vec<(Color, usize)> handed on
    kmeans,           \* the KMeansState kmeans_lloyd returned
    clusters,         \* the Vec<ColorCluster>
    stdout,           \* what was printed
    stderr            \* the error message or panic, "" for none

vars == <<args, video, pc, capture, end_frame, frame_number, start_frame, yielded,
          next_calls, extract_calls, decode_failed, resized_frame, colors,
          extracted_total, color_counts, color_ranking, kmeans, clusters,
          stdout, stderr>>

iter_vars == <<capture, end_frame, frame_number, start_frame, yielded, next_calls, decode_failed>>
frame_vars == <<extract_calls, resized_frame, colors, extracted_total, color_counts>>
cluster_vars == <<kmeans, clusters>>

NoResult == [assignments |-> <<>>, centroids |-> <<>>]

BaseArgs ==
    [color_clusters |-> 1, resize_height |-> 1, saturation |-> 0, luminance |-> 0,
     start |-> NoneV, end |-> NoneV]

BaseVideo ==
    [file |-> "ok", fps2 |-> 2, total_frames |-> 1, bad |-> NoneV,
     cols |-> 1, rows |-> 1, pixels |-> {Red}]

\* The state with nothing run yet: main at `at`, holding `ranking`.
Fresh(a, v, at, ranking) ==
    /\ args = a
    /\ video = v
    /\ pc = at
    /\ capture = 0
    /\ end_frame = 0
    /\ frame_number = 0
    /\ start_frame = 0
    /\ yielded = <<>>
    /\ next_calls = 0
    /\ extract_calls = 0
    /\ decode_failed = FALSE
    /\ resized_frame = <<>>
    /\ colors = <<>>
    /\ extracted_total = 0
    /\ color_counts = <<>>
    /\ color_ranking = ranking
    /\ kmeans = NoResult
    /\ clusters = <<>>
    /\ stdout = <<>>
    /\ stderr = ""

\* A resized frame of the video has at most MaxPixels pixels.
FrameFits(a, v, maxPixels) ==
    a.resize_height * new_width(a.resize_height, v.cols, v.rows) <= maxPixels

\* ----------------------------------------------------------------- actions
\* main: the path is no file.
NotAFile ==
    /\ pc = "start"
    /\ video.file = "missing"
    /\ pc' = "exit"
    /\ stderr' = "Video path is not a file"
    /\ UNCHANGED <<args, video, iter_vars, frame_vars, color_ranking, cluster_vars, stdout>>

\* main: VideoFrameIterator::new returns Err (from_file or get fails).
OpenFails ==
    /\ pc = "start"
    /\ video.file = "unopenable"
    /\ pc' = "exit"
    /\ stderr' = "Error opening video"
    /\ UNCHANGED <<args, video, iter_vars, frame_vars, color_ranking, cluster_vars, stdout>>

\* VideoFrameIterator::new: the frame range, and the seek to its start.
New ==
    /\ pc = "start"
    /\ video.file = "ok"
    /\ start_frame' = StartFrame(args.start, video.fps2)
    /\ end_frame' = EndFrame(args.end, video.fps2, video.total_frames)
    /\ capture' = IF start_frame' > 0 THEN start_frame' ELSE capture
    /\ frame_number' = start_frame'
    /\ pc' = "begin"
    /\ UNCHANGED <<args, video, yielded, next_calls, decode_failed, frame_vars,
                   color_ranking, cluster_vars, stdout, stderr>>

\* extract_color_ranking_from_video up to its loop: the empty map and the
\* progress bar of length end_frame - frame_number.  In a build without
\* overflow checks the u64 difference wraps and the function goes on.
Begin ==
    /\ pc = "begin"
    /\ pc' = "loop"
    /\ UNCHANGED <<args, video, iter_vars, frame_vars, color_ranking, cluster_vars,
                   stdout, stderr>>

\* The same subtraction in a build with overflow checks, for start past end.
BeginOverflows ==
    /\ pc = "begin"
    /\ end_frame < frame_number
    /\ pc' = "panic"
    /\ stderr' = "panic: attempt to subtract with overflow"
    /\ UNCHANGED <<args, video, iter_vars, frame_vars, color_ranking, cluster_vars, stdout>>

\* next(): the range is exhausted.
NextExhausted ==
    /\ pc = "loop"
    /\ Exhausted(frame_number, end_frame)
    /\ next_calls' = next_calls + 1
    /\ pc' = "rank"
    /\ UNCHANGED <<args, video, capture, end_frame, frame_number, start_frame, yielded,
                   decode_failed, frame_vars, color_ranking, cluster_vars, stdout, stderr>>

\* next(): read() delivers the frame at the capture's position.
NextFrame ==
    /\ pc = "loop"
    /\ ~Exhausted(frame_number, end_frame)
    /\ capture < video.total_frames
    /\ video.bad # Some(capture)
    /\ next_calls' = next_calls + 1
    /\ yielded' = Append(yielded, capture)
    /\ capture' = capture + 1
    /\ frame_number' = frame_number + 1
    /\ pc' = "frame"
    /\ UNCHANGED <<args, video, end_frame, start_frame, decode_failed, frame_vars,
                   color_ranking, cluster_vars, stdout, stderr>>

\* next(): read() returns false at the end of the stream.
NextEndOfStream ==
    /\ pc = "loop"
    /\ ~Exhausted(frame_number, end_frame)
    /\ capture >= video.total_frames
    /\ next_calls' = next_calls + 1
    /\ pc' = "rank"
    /\ UNCHANGED <<args, video, capture, end_frame, frame_number, start_frame, yielded,
                   decode_failed, frame_vars, color_ranking, cluster_vars, stdout, stderr>>

\* next(): read() returns false because the frame does not decode.
NextDecodeFails ==
    /\ pc = "loop"
    /\ ~Exhausted(frame_number, end_frame)
    /\ capture < video.total_frames
    /\ video.bad = Some(capture)
    /\ next_calls' = next_calls + 1
    /\ decode_failed' = TRUE
    /\ pc' = "rank"
    /\ UNCHANGED <<args, video, capture, end_frame, frame_number, start_frame, yielded,
                   frame_vars, color_ranking, cluster_vars, stdout, stderr>>

\* next(): read() returns Err for the frame that does not decode; unwrap panics.
NextDecodePanics ==
    /\ pc = "loop"
    /\ ~Exhausted(frame_number, end_frame)
    /\ capture < video.total_frames
    /\ video.bad = Some(capture)
    /\ next_calls' = next_calls + 1
    /\ decode_failed' = TRUE
    /\ pc' = "panic"
    /\ stderr' = "panic: read"
    /\ UNCHANGED <<args, video, capture, end_frame, frame_number, start_frame, yielded,
                   frame_vars, color_ranking, cluster_vars, stdout>>

\* The loop body: extract_colors_from_frame, then the counts.
ProcessFrame ==
    /\ pc = "frame"
    /\ args.resize_height > 0
    /\ new_width(args.resize_height, video.cols, video.rows) > 0
    /\ \E resized \in ResizedFrames(args.resize_height, video.cols, video.rows, video.pixels) :
          /\ resized_frame' = resized
          /\ colors' = extract_colors_from_frame(resized, args.saturation, args.luminance)
    /\ extract_calls' = extract_calls + 1
    /\ extracted_total' = extracted_total + Len(colors')
    /\ color_counts' = CountColors(color_counts, colors')
    /\ pc' = "loop"
    /\ UNCHANGED <<args, video, iter_vars, color_ranking, cluster_vars, stdout, stderr>>

\* The loop body: imgproc::resize rejects an empty or negative size; unwrap panics.
ResizePanics ==
    /\ pc = "frame"
    /\ \/ args.resize_height <= 0
       \/ new_width(args.resize_height, video.cols, video.rows) <= 0
    /\ extract_calls' = extract_calls + 1
    /\ pc' = "panic"
    /\ stderr' = "panic: resize"
    /\ UNCHANGED <<args, video, iter_vars, resized_frame, colors, extracted_total,
                   color_counts, color_ranking, cluster_vars, stdout>>

\* After the loop: collect the map, sort it, return Ok(color_ranking).
Finish ==
    /\ pc = "rank"
    /\ \E v \in Collected(color_counts) : color_ranking' = sort_by(v)
    /\ pc' = "palette"
    /\ UNCHANGED <<args, video, iter_vars, frame_vars, cluster_vars, stdout, stderr>>

\* print_color_palette: the first num_colors pairs.
PrintPalette ==
    /\ pc = "palette"
    /\ stdout' = Append(stdout,
                    [kind |-> "palette",
                     lines |-> SubSeq(color_ranking, 1, Min2(num_colors, Len(color_ranking)))])
    /\ pc' = "cluster"
    /\ UNCHANGED <<args, video, iter_vars, frame_vars, color_ranking, cluster_vars, stderr>>

\* create_color_clusters on samples and a cluster count k-means can work with.
Cluster ==
    /\ pc = "cluster"
    /\ args.color_clusters >= 1
    /\ TotalSamples(color_ranking) >= 1
    /\ \E result \in KMeansResults(Samples(color_ranking), args.color_clusters) :
          /\ kmeans' = result
          /\ clusters' = create_color_clusters(color_ranking, args.color_clusters, result)
    /\ pc' = "print_clusters"
    /\ UNCHANGED <<args, video, iter_vars, frame_vars, color_ranking, stdout, stderr>>

\* create_color_clusters without samples or without clusters, where the kmeans
\* crate returns: no assignments, and centroids it never moved.
ClusterDegenerate ==
    /\ pc = "cluster"
    /\ args.color_clusters = 0 \/ TotalSamples(color_ranking) = 0
    /\ kmeans' = [assignments |-> <<>>,
                  centroids |-> [j \in 1..args.color_clusters |-> [sum |-> Black, n |-> 1]]]
    /\ clusters' = create_color_clusters(color_ranking, args.color_clusters, kmeans')
    /\ pc' = "print_clusters"
    /\ UNCHANGED <<args, video, iter_vars, frame_vars, color_ranking, stdout, stderr>>

\* create_color_clusters where the kmeans crate panics: no sample or no centroid
\* to pick, or more centroids asked for than there are distinct samples (k-means++
\* then has only zero weights to draw from).
ClusterPanics ==
    /\ pc = "cluster"
    /\ \/ args.color_clusters = 0
       \/ TotalSamples(color_ranking) = 0
       \/ args.color_clusters > Cardinality(SampleColors(Samples(color_ranking)))
    /\ pc' = "panic"
    /\ stderr' = "panic: kmeans"
    /\ UNCHANGED <<args, video, iter_vars, frame_vars, color_ranking, cluster_vars, stdout>>

\* print_color_clusters: one line per centroid.
PrintClusters ==
    /\ pc = "print_clusters"
    /\ stdout' = Append(stdout,
                    [kind |-> "clusters",
                     lines |-> [j \in 1..Len(clusters) |-> clusters[j].centroid]])
    /\ pc' = "done"
    /\ UNCHANGED <<args, video, iter_vars, frame_vars, color_ranking, cluster_vars, stderr>>

\* ---------------------------------------------------------- specifications
RgbToBgr(c) == <<c[3], c[2], c[1]>>

\* The whole run of main.
PipelineArgs ==
    [color_clusters : 0..MaxClusters, resize_height : (0 - 1)..MaxHeight,
     saturation : {0}, luminance : {0},
     start : Option(0..MaxSecs), end : Option(0..MaxSecs)]

PipelineVideos ==
    {v \in [file : {"ok"}, fps2 : {2}, total_frames : 0..MaxFrames,
            bad : Option(0..(MaxFrames - 1)), cols : 1..MaxPixels, rows : 1..MaxHeight,
            pixels : {{RgbToBgr(Red), RgbToBgr(Blue), RgbToBgr(White)}}] :
        v.bad = NoneV \/ v.bad[1] < v.total_frames}
    \cup {[BaseVideo EXCEPT !.file = f] : f \in {"missing", "unopenable"}}

Init ==
    \E a \in PipelineArgs, v \in PipelineVideos :
        /\ FrameFits(a, v, MaxPixels)
        /\ Fresh(a, v, "start", <<>>)

Next ==
    \/ NotAFile
    \/ OpenFails
    \/ New
    \/ Begin
    \/ BeginOverflows
    \/ NextExhausted
    \/ NextFrame
    \/ NextEndOfStream
    \/ NextDecodeFails
    \/ NextDecodePanics
    \/ ProcessFrame
    \/ ResizePanics
    \/ Finish
    \/ PrintPalette
    \/ Cluster
    \/ ClusterDegenerate
    \/ ClusterPanics
    \/ PrintClusters

Spec == Init /\ [][Next]_vars

\* The iterator alone: every time window over every stream, frames of one pixel.
IterArgs ==
    [color_clusters : {1}, resize_height : {1}, saturation : {0}, luminance : {0},
     start : Option(0..MaxSecs), end : Option(0..MaxSecs)]

IterVideos ==
    {v \in [file : {"ok"}, fps2 : 1..MaxFps2, total_frames : 0..MaxFrames,
            bad : Option(0..(MaxFrames - 1)), cols : {1}, rows : {1},
            pixels : {{RgbToBgr(Red)}}] :
        v.bad = NoneV \/ v.bad[1] < v.total_frames}

InitIter == \E a \in IterArgs, v \in IterVideos : Fresh(a, v, "start", <<>>)

NextIter ==
    \/ New
    \/ Begin
    \/ BeginOverflows
    \/ NextExhausted
    \/ NextFrame
    \/ NextEndOfStream
    \/ NextDecodeFails
    \/ NextDecodePanics
    \/ ProcessFrame

SpecIter == InitIter /\ [][NextIter]_vars

\* The aggregator alone: the whole stream of a video that decodes, up to the
\* ranking it returns.
RankArgs ==
    [color_clusters : {1}, resize_height : 1..MaxHeight, saturation : {0}, luminance : {0},
     start : {NoneV}, end : {NoneV}]

RankVideos ==
    [file : {"ok"}, fps2 : {2}, total_frames : 0..MaxFrames, bad : {NoneV},
     cols : 1..MaxRankPixels, rows : {1},
     pixels : {{RgbToBgr(Red), RgbToBgr(Green), RgbToBgr(Blue), RgbToBgr(White)}}]

InitRank ==
    \E a \in RankArgs, v \in RankVideos :
        /\ FrameFits(a, v, MaxRankPixels)
        /\ Fresh(a, v, "start", <<>>)

NextRank ==
    \/ New
    \/ Begin
    \/ NextExhausted
    \/ NextFrame
    \/ ProcessFrame
    \/ Finish

SpecRank == InitRank /\ [][NextRank]_vars

\* The extractor alone: one call on every frame of up to MaxBandPixels pixels
\* around the exclusion bands, under every pair of thresholds.
BandChannels == {black_threshold, 128, white_threshold}

ExtractArgs ==
    [color_clusters : {1}, resize_height : {1}, saturation : 0..ThrDen, luminance : 0..ThrDen,
     start : {NoneV}, end : {NoneV}]

ExtractVideos ==
    [file : {"ok"}, fps2 : {2}, total_frames : {1}, bad : {NoneV},
     cols : 1..MaxBandPixels, rows : {1},
     pixels : {BandChannels \X BandChannels \X BandChannels}]

InitExtract == \E a \in ExtractArgs, v \in ExtractVideos : Fresh(a, v, "frame", <<>>)

NextExtract == ProcessFrame

SpecExtract == InitExtract /\ [][NextExtract]_vars

\* The clusterer alone: every ranking of up to three colours.
ClusterColors == {Red, Green, Blue}

Rankings ==
    UNION {{r \in [1..n -> ClusterColors \X (1..MaxCount)] :
               /\ \A i, j \in 1..n : i # j => r[i][1] # r[j][1]
               /\ \A i \in 1..(n - 1) : r[i][2] >= r[i + 1][2]} :
           n \in 0..Cardinality(ClusterColors)}

InitCluster ==
    \E r \in Rankings, k \in 0..MaxClusters :
        Fresh([BaseArgs EXCEPT !.color_clusters = k], BaseVideo, "cluster", r)

NextCluster ==
    \/ Cluster
    \/ ClusterDegenerate
    \/ ClusterPanics
    \/ PrintClusters

SpecCluster == InitCluster /\ [][NextCluster]_vars

\* ------------------------------------------------------------------ claims
Range(seq) == {seq[i] : i \in 1..Len(seq)}

RECURSIVE SumCounts(_, _)
SumCounts(m, keys) ==
    IF keys = {} THEN 0
    ELSE LET c == CHOOSE x \in keys : TRUE
         IN  m[c] + SumCounts(m, keys \ {c})

\* The index of the first sample generated from the i-th colour of the ranking.
FirstSample(ranking, i) == TotalSamples(SubSeq(ranking, 1, i - 1)) + 1

Clustered == pc \in {"print_clusters", "done"}

\* C1: every colour of the ranking lies in the assignment list of the cluster
\* index k-means gave to the samples generated from that colour.
C1_ColorsFollowTheirSamples ==
    (Clustered /\ kmeans.assignments # <<>>) =>
        \A i \in 1..Len(color_ranking) :
            color_ranking[i] \in
                Range(clusters[kmeans.assignments[FirstSample(color_ranking, i)] + 1].assignments)

\* C2: the assignment lists of the returned clusters partition a non-empty
\* ranking: every pair of the ranking is in exactly one list, exactly once, and
\* the lists hold nothing else.
C2_AssignmentsPartitionRanking ==
    (Clustered /\ color_ranking # <<>> /\ args.color_clusters >= 1) =>
        /\ \A i \in 1..Len(color_ranking) :
              Cardinality({jp \in {<<j, p>> : j \in 1..Len(clusters), p \in 1..Len(color_ranking)} :
                              /\ jp[2] <= Len(clusters[jp[1]].assignments)
                              /\ clusters[jp[1]].assignments[jp[2]] = color_ranking[i]}) = 1
        /\ \A j \in 1..Len(clusters) :
              Range(clusters[j].assignments) \subseteq Range(color_ranking)
        /\ SumSeq([j \in 1..Len(clusters) |-> Len(clusters[j].assignments)]) = Len(color_ranking)

\* C2's case: three colours, one of them counted twice, spread over two
\* clusters, one of which holds two colours.
C2_Witness ==
    /\ Clustered
    /\ Len(color_ranking) = 3
    /\ color_ranking[1][2] >= 2
    /\ Len(clusters) = 2
    /\ Len(clusters[1].assignments) = 2
    /\ Len(clusters[2].assignments) = 1

ValidConfiguration == args.color_clusters >= 1 /\ args.resize_height >= 1

\* C3: clustering an empty ranking (frames were read, every pixel was filtered
\* out, the configuration is valid) ends the run with an EmptyInputError: no
\* panic, no clusters returned or printed.
C3_EmptyRankingIsAnError ==
    (/\ ValidConfiguration
     /\ Len(yielded) >= 1
     /\ color_ranking = <<>>
     /\ pc \in {"print_clusters", "done", "panic"}
     /\ Len(stdout) >= 1) =>
        /\ pc # "panic"
        /\ stderr = "EmptyInputError"
        /\ \A i \in 1..Len(stdout) : stdout[i].kind # "clusters"

\* C4: once a frame failed to decode mid-stream (frames were read before it,
\* the configuration is valid), extract_color_ranking_from_video does not return
\* Ok, and neither a ranking nor clusters are printed.
C4_DecodeFailureIsAnError ==
    (ValidConfiguration /\ Len(yielded) >= 1 /\ decode_failed) =>
        /\ pc \notin {"palette", "cluster", "print_clusters", "done"}
        /\ stdout = <<>>

\* The frame of the scenario: red, red, blue, white, as decoded (BGR).
ScenarioFrame == <<RgbToBgr(Red), RgbToBgr(Red), RgbToBgr(Blue), RgbToBgr(White)>>

\* The run of the scenario, clustered, k-means having told red's samples from blue's.
Scenario ==
    /\ Clustered
    /\ Len(yielded) = 1
    /\ resized_frame = ScenarioFrame
    /\ args.saturation = 0
    /\ args.luminance = 0
    /\ args.color_clusters = 2
    /\ Len(kmeans.assignments) = 3
    /\ kmeans.assignments[1] # kmeans.assignments[3]

\* C5: the scenario's frame yields two red and one blue, the ranking
\* [(red,2), (blue,1)], and with 2 clusters one cluster centred at red holding
\* [(red,2)] and one centred at blue holding [(blue,1)].
C5_ScenarioClusters ==
    Scenario =>
        /\ colors = <<Red, Red, Blue>>
        /\ color_ranking = <<<<Red, 2>>, <<Blue, 1>>>>
        /\ Range(clusters) = {[centroid |-> Red, assignments |-> <<<<Red, 2>>>>],
                              [centroid |-> Blue, assignments |-> <<<<Blue, 1>>>>]}

\* C6: with zero clusters or a non-positive resize height no frame is read
\* from the frame source and none is handed to extract_colors_from_frame.
C6_InvalidConfigurationReadsNoFrame ==
    (args.color_clusters = 0 \/ args.resize_height <= 0) =>
        /\ yielded = <<>>
        /\ extract_calls = 0

\* C7: at every step the counts of the map sum to the number of colours
\* extracted so far, and so do the counts of the ranking returned.
C7_CountsSumToExtracted ==
    /\ SumCounts(color_counts, DOMAIN color_counts) = extracted_total
    /\ pc = "palette" =>
          SumSeq([i \in 1..Len(color_ranking) |-> color_ranking[i][2]]) = extracted_total

\* C7's case: two frames folded, a colour counted more than once, a pixel discarded.
C7_Witness ==
    /\ pc = "palette"
    /\ Len(yielded) = 2
    /\ Len(color_ranking) >= 2
    /\ color_ranking[1][2] >= 2
    /\ extracted_total < 2 * Len(resized_frame)

\* C8: no colour returned by extract_colors_from_frame has all three channels
\* >= 250 or all three channels <= 5, whatever the thresholds.
C8_NoColorInExclusionBands ==
    \A i \in 1..Len(colors) :
        /\ ~(colors[i][1] >= 250 /\ colors[i][2] >= 250 /\ colors[i][3] >= 250)
        /\ ~(colors[i][1] <= 5 /\ colors[i][2] <= 5 /\ colors[i][3] <= 5)

\* C8's case: a frame of a near-white pixel and a pixel outside the bands, of
\* which the second alone is returned.
C8_Witness ==
    /\ extract_calls = 1
    /\ Len(resized_frame) = 2
    /\ resized_frame[1] = <<250, 250, 250>>
    /\ colors = <<<<250, 128, 5>>>>

\* C9: the ranking returned is sorted by count descending, its counts are >= 1
\* and no colour occurs twice in it.
C9_RankingSortedPositiveDistinct ==
    pc = "palette" =>
        /\ \A i \in 1..(Len(color_ranking) - 1) : color_ranking[i][2] >= color_ranking[i + 1][2]
        /\ \A i \in 1..Len(color_ranking) : color_ranking[i][2] >= 1
        /\ \A i, j \in 1..Len(color_ranking) :
              i # j => color_ranking[i][1] # color_ranking[j][1]

\* C9's case: three colours, the first counted more often than the other two,
\* which tie.
C9_Witness ==
    /\ pc = "palette"
    /\ Len(color_ranking) = 3
    /\ color_ranking[1][2] > color_ranking[2][2]
    /\ color_ranking[2][2] = color_ranking[3][2]

\* C10: the frames next() yields have indices in [start_frame, end_frame), in
\* increasing order; frame_number is start_frame plus the number of frames
\* yielded; at most max(0, end_frame - start_frame) frames are yielded.
C10_FramesWithinRange ==
    pc \notin {"start", "exit"} =>
        /\ \A i \in 1..Len(yielded) : start_frame <= yielded[i] /\ yielded[i] < end_frame
        /\ \A i \in 1..(Len(yielded) - 1) : yielded[i] < yielded[i + 1]
        /\ frame_number = start_frame + Len(yielded)
        /\ Len(yielded) <= (IF end_frame > start_frame THEN end_frame - start_frame ELSE 0)

\* C10's case: a range that starts after the first frame and ends past the end
\* of the stream, read until next() returned None.
C10_Witness ==
    /\ pc = "rank"
    /\ start_frame >= 1
    /\ end_frame > video.total_frames
    /\ Len(yielded) >= 1

====
